---- MODULE Spec2Model ----
(***************************************************************************)
(* Job-shop scheduling engine (scheduler/scheduling.py): Scheduler over    *)
(* the Job / Task records of scheduler/manufacturing.                      *)
(*                                                                         *)
(* The Job and Task records live in one heap (the variable jobs): the      *)
(* engine mutates the caller's Task objects in place.  Python positions    *)
(* are 0-based; sequences here are 1-based, so Python position p is index  *)
(* p + 1 and the dictionary key job_id of Scheduler._jobs is index - 1.    *)
(***************************************************************************)
EXTENDS Integers, Sequences, FiniteSets, TLC

\* ---------------------------------------------------------------- bounds
MaxJobs == 2        \* jobs in a request
MaxTasks == 3       \* tasks in a request, over all its jobs
MaxFits == 2        \* fit calls made on one engine
MaxIntervals == 8   \* interval variables held by one engine's CpModel

Machines == {1, 2}
Durations == {1, 2}
\* The Job and Task records may be shared by several engines; Spec drives
\* the first one.
Engines == {1, 2}
Primary == {1}

VARIABLES jobs, fitted, model, machine_to_intervals, last, everFitted

vars == <<jobs, fitted, model, machine_to_intervals, last, everFitted>>

\* ------------------------------------------------- values of start / end
\* Task.start, Task.end and Task.interval hold None, a CP-SAT variable of
\* some engine's model, or (start, end) a solved integer.
None == [kind |-> "None", ref |-> <<>>]
IntVar(e, g, j, i, f) == [kind |-> "IntVar", ref |-> <<e, g, j, i, f>>]
IntervalVar(e, g, j, i) == [kind |-> "IntervalVar", ref |-> <<e, g, j, i>>]
IntVal(n) == [kind |-> "int", ref |-> <<n>>]

Task(id, machine, duration) ==
    [id |-> id, machine |-> machine, duration |-> duration,
     start |-> None, end |-> None, interval |-> None]

Job(id, tasks) == [id |-> id, tasks |-> tasks]

\* ------------------------------------------------------------- requests
RECURSIVE SumSeq(_)
SumSeq(s) == IF s = <<>> THEN 0 ELSE Head(s) + SumSeq(Tail(s))

TaskInputs == [machine : Machines, duration : Durations]

\* Task ids are the caller's: in list order, or in the reverse of it.
IdOrders == {"position", "reversed"}

TaskList(ts, order) ==
    [i \in 1..Len(ts) |->
        Task(IF order = "position" THEN i - 1 ELSE Len(ts) - i,
             ts[i].machine, ts[i].duration)]

TaskListsOfLen(k) ==
    {TaskList(ts, order) : ts \in [1..k -> TaskInputs], order \in IdOrders}

RECURSIVE TaskListSeqs(_, _)
TaskListSeqs(n, budget) ==
    IF n = 0 THEN {<<>>}
    ELSE UNION {{Append(r, tl) : r \in TaskListSeqs(n - 1, budget - k),
                                 tl \in TaskListsOfLen(k)} : k \in 0..budget}

Requests ==
    {[j \in 1..Len(r) |-> Job(j - 1, r[j])] :
        r \in UNION {TaskListSeqs(n, MaxTasks) : n \in 0..MaxJobs}}

\* The fixture of tests/conftest.py: two jobs over machines 1, 2, 3.
scheduler_example ==
    << Job(0, <<Task(0, 1, 2), Task(1, 2, 2), Task(2, 3, 2)>>),
       Job(1, <<Task(0, 3, 2), Task(1, 2, 2), Task(2, 1, 2)>>) >>

\* Two jobs that cross two machines, with unequal durations.
crossing_example ==
    << Job(0, <<Task(0, 1, 1), Task(1, 2, 1)>>),
       Job(1, <<Task(0, 2, 2), Task(1, 1, 2)>>) >>

\* -------------------------------------------------- derived properties
JobHorizon(job) == SumSeq([i \in 1..Len(job.tasks) |-> job.tasks[i].duration])

JobMachines(job) == {job.tasks[i].machine : i \in 1..Len(job.tasks)}

\* Variant: the horizon of the last job only.
horizon_of_last_job == IF jobs = <<>> THEN 0 ELSE JobHorizon(jobs[Len(jobs)])

horizon == SumSeq([j \in 1..Len(jobs) |-> JobHorizon(jobs[j])])

all_machines == UNION {JobMachines(jobs[j]) : j \in 1..Len(jobs)}

TaskRefs == UNION {{<<j, i>> : i \in 1..Len(jobs[j].tasks)} : j \in 1..Len(jobs)}

NumTasks == Cardinality(TaskRefs)

Dur(j, i) == jobs[j].tasks[i].duration

\* ------------------------------------------------------------ the model
EmptyModel ==
    [inits |-> 0, vars |-> 0, intervals |-> {}, no_overlap |-> {},
     precedence |-> {}, max_equality |-> {}, objective |-> 0]

\* _fetch_task: job_id is the key of Scheduler._jobs, task_id the position
\* in the job's task list (both counted from 0).
fetch_task(js, job_id, task_id) == js[job_id + 1].tasks[task_id + 1]

RECURSIVE TaskOrder(_)
\* The tasks in the order the loops over _jobs.items() / job.tasks visit them.
TaskOrder(j) ==
    IF j = 0 THEN <<>>
    ELSE TaskOrder(j - 1) \o [i \in 1..Len(jobs[j].tasks) |-> <<j, i>>]

Range(s) == {s[i] : i \in 1..Len(s)}

\* _initialize, on the Task records: fresh variables of generation g of
\* engine e's model replace whatever start / end / interval held.
initialize_tasks(e, g) ==
    [j \in 1..Len(jobs) |->
        [id |-> jobs[j].id,
         tasks |-> [i \in 1..Len(jobs[j].tasks) |->
            [id |-> jobs[j].tasks[i].id,
             machine |-> jobs[j].tasks[i].machine,
             duration |-> jobs[j].tasks[i].duration,
             start |-> IntVar(e, g, j, i, 0),
             end |-> IntVar(e, g, j, i, 1),
             interval |-> IntervalVar(e, g, j, i)]]]]

\* _initialize, on the CpModel: two IntVars and one IntervalVar per task.
initialize_model(m, g) ==
    [m EXCEPT !.inits = g,
              !.vars = @ + 2 * NumTasks,
              !.intervals = @ \cup {<<g, r[1], r[2]>> : r \in TaskRefs}]

\* _initialize, on _machine_to_intervals (a defaultdict(list)): each task's
\* interval is appended to the list of the task's machine.
initialize_intervals(m2i, g) ==
    [mach \in DOMAIN m2i \cup all_machines |->
        (IF mach \in DOMAIN m2i THEN m2i[mach] ELSE <<>>)
        \o [k \in 1..Len(SelectSeq(TaskOrder(Len(jobs)),
                     LAMBDA r : jobs[r[1]].tasks[r[2]].machine = mach)) |->
             LET r == SelectSeq(TaskOrder(Len(jobs)),
                        LAMBDA q : jobs[q[1]].tasks[q[2]].machine = mach)[k]
             IN  <<g, r[1], r[2]>>]]

\* Variant: the loop over all_machines stops after its first machine.
add_no_overlap_first_machine_only(m, m2i) ==
    [m EXCEPT !.no_overlap = @ \cup
        {Range(m2i[mach]) :
            mach \in {x \in all_machines : \A y \in all_machines : x <= y}}]

\* _add_no_overlap_constraint: one AddNoOverlap per machine, over the whole
\* list the machine has accumulated.
add_no_overlap_constraint(m, m2i) ==
    [m EXCEPT !.no_overlap = @ \cup {Range(m2i[mach]) : mach \in all_machines}]

\* Variant: range(len(job.tasks) - 2), one pair short.
add_precedence_one_short(m, js) ==
    [m EXCEPT !.precedence = @ \cup
        UNION {{<<fetch_task(js, j - 1, t + 1).start.ref,
                  fetch_task(js, j - 1, t).end.ref>> :
                    t \in 0..(Len(js[j].tasks) - 3)} : j \in 1..Len(js)}]

\* _add_precedence_constraints: next_task.start >= precedent_task.end for
\* consecutive list positions; a constraint is <<start variable, end variable>>.
add_precedence_constraints(m, js) ==
    [m EXCEPT !.precedence = @ \cup
        UNION {{<<fetch_task(js, j - 1, t + 1).start.ref,
                  fetch_task(js, j - 1, t).end.ref>> :
                    t \in 0..(Len(js[j].tasks) - 2)} : j \in 1..Len(js)}]

\* _define_objective raises IndexError on job.tasks[-1] of an empty list.
objective_raises(js) == \E j \in 1..Len(js) : js[j].tasks = <<>>

\* _define_objective: the makespan variable, created before the list of
\* job-terminal end variables is evaluated.
objective_var(m) == [m EXCEPT !.vars = @ + 1]

objective_exprs(js) ==
    {fetch_task(js, j - 1, Len(js[j].tasks) - 1).end.ref : j \in 1..Len(js)}

define_objective(m, js, g) ==
    [objective_var(m) EXCEPT
        !.max_equality = @ \cup {[target |-> g, exprs |-> objective_exprs(js)]},
        !.objective = g]

\* ----------------------------------------------------------- the solver
\* CpSolver.Solve with its default parameters (no time limit is set
\* anywhere): a complete search, OPTIMAL with one of the optimal assignments
\* when the model is satisfiable and INFEASIBLE when it is not.
\* An assignment of one generation of variables is a[j][i], the value of the
\* start variable of the task at index i of job j; its end variable is bound
\* to start + duration by the task's IntervalVar.
VarValue(a, ref) ==
    a[ref[3]][ref[4]] + (IF ref[5] = 1 THEN Dur(ref[3], ref[4]) ELSE 0)

Disjoint(s1, d1, s2, d2) == s1 + d1 <= s2 \/ s2 + d2 <= s1

GroupMates(m, I) == UNION {grp \in m.no_overlap : I \in grp} \ {I}

\* The <<start, size>> of the intervals the assignments in chosen (a set of
\* <<generation, assignment>>) give to the tasks that share a no-overlap
\* constraint with interval I.
Busy(m, I, chosen) ==
    UNION {{<<c[2][I2[2]][I2[3]], Dur(I2[2], I2[3])>> :
                I2 \in {I2 \in GroupMates(m, I) : I2[1] = c[1]}} : c \in chosen}

RECURSIVE JobSolutions(_, _, _, _, _)
\* The assignments to the variables of generation g of tasks 1..i of job j
\* that lie in [0, horizon], satisfy the constraints among them and overlap
\* nothing the chosen assignments of other generations forbid.
JobSolutions(m, g, j, i, chosen) ==
    IF i = 0 THEN {<<>>}
    ELSE LET H == horizon
             prec == {c \in m.precedence :
                        /\ c[1][2] = g /\ c[1][3] = j
                        /\ c[1][4] <= i /\ c[2][4] <= i
                        /\ (c[1][4] = i \/ c[2][4] = i)}
             clash == {i2 \in 1..(i - 1) :
                         <<g, j, i2>> \in GroupMates(m, <<g, j, i>>)}
             free == {s \in 0..(H - Dur(j, i)) :
                        \A b \in Busy(m, <<g, j, i>>, chosen) :
                            Disjoint(s, Dur(j, i), b[1], b[2])}
         IN  UNION {{Append(f, s) : s \in
                       {s \in free :
                           /\ \A c \in prec :
                                 (IF c[1][4] = i THEN s ELSE f[c[1][4]]) >=
                                 (IF c[2][4] = i THEN s ELSE f[c[2][4]])
                                     + Dur(j, c[2][4])
                           /\ \A i2 \in clash :
                                 Disjoint(s, Dur(j, i), f[i2], Dur(j, i2))}} :
                    f \in JobSolutions(m, g, j, i - 1, chosen)}

RECURSIVE GenSolutions(_, _, _, _)
\* The same for the variables of generation g of jobs 1..j.
GenSolutions(m, g, j, chosen) ==
    IF j = 0 THEN {<<>>}
    ELSE LET clash == {p \in (1..Len(jobs[j].tasks)) \X {r \in TaskRefs : r[1] < j} :
                         <<g, p[2][1], p[2][2]>> \in GroupMates(m, <<g, j, p[1]>>)}
             mine == JobSolutions(m, g, j, Len(jobs[j].tasks), chosen)
         IN  UNION {{Append(a, f) : f \in
                       {f \in mine : \A p \in clash :
                           Disjoint(f[p[1]], Dur(j, p[1]),
                                    a[p[2][1]][p[2][2]], Dur(p[2][1], p[2][2]))}} :
                    a \in GenSolutions(m, g, j - 1, chosen)}

RECURSIVE Completes(_, _, _)
\* Some assignment of generations 1..g agrees with the chosen ones.
Completes(m, chosen, g) ==
    \/ g = 0
    \/ \E a \in GenSolutions(m, g, Len(jobs), chosen) :
          Completes(m, chosen \cup {<<g, a>>}, g - 1)

RECURSIVE SumSizes(_)
SumSizes(grp) ==
    IF grp = {} THEN 0
    ELSE LET I == CHOOSE I \in grp : TRUE
         IN  Dur(I[2], I[3]) + SumSizes(grp \ {I})

SetMax(S) == CHOOSE x \in S : \A y \in S : y <= x

SetMin(S) == CHOOSE x \in S : \A y \in S : x <= y

\* The value AddMaxEquality gives the minimised makespan variable.
Objective(m, a) ==
    LET mx == CHOOSE c \in m.max_equality : c.target = m.objective
    IN  SetMax({VarValue(a, r) : r \in mx.exprs})

\* The outcomes of Solve: a status and the values of the variables of the
\* newest generation (the ones the Task records hold).
Solve(m) ==
    LET k == m.inits
        \* max over no expression has no value; intervals that share a machine
        \* need the sum of their sizes inside [0, horizon]
        wellFormed == \A c \in m.max_equality : c.exprs # {}
        fits == \A grp \in m.no_overlap : SumSizes(grp) <= horizon
        feasible == IF wellFormed /\ fits
                    THEN {a \in GenSolutions(m, k, Len(jobs), {}) :
                            Completes(m, {<<k, a>>}, k - 1)}
                    ELSE {}
        best == SetMin({Objective(m, a) : a \in feasible})
    IN  IF feasible = {}
        THEN {[status |-> s, values |-> <<>>] : s \in
                 IF wellFormed THEN {"INFEASIBLE"} ELSE {"INFEASIBLE", "MODEL_INVALID"}}
        ELSE {[status |-> "OPTIMAL", values |-> a] :
                 a \in {a \in feasible : Objective(m, a) = best}}

\* Variant: task.end reads the value of the start variable.
update_tasks_end_from_start(js, a) ==
    [j \in 1..Len(js) |->
        [js[j] EXCEPT !.tasks = [i \in 1..Len(js[j].tasks) |->
            [js[j].tasks[i] EXCEPT
                !.start = IntVal(VarValue(a, fetch_task(js, j - 1, i - 1).start.ref)),
                !.end = IntVal(VarValue(a, fetch_task(js, j - 1, i - 1).start.ref))]]]]

\* _update_tasks: every task's start and end become the solver's values of
\* the variables they held.
update_tasks(js, a) ==
    [j \in 1..Len(js) |->
        [js[j] EXCEPT !.tasks = [i \in 1..Len(js[j].tasks) |->
            [js[j].tasks[i] EXCEPT
                !.start = IntVal(VarValue(a, fetch_task(js, j - 1, i - 1).start.ref)),
                !.end = IntVal(VarValue(a, fetch_task(js, j - 1, i - 1).end.ref))]]]]

Returned(op, e, outcome) ==
    [op |-> op, eng |-> e, outcome |-> outcome, table |-> <<>>]

\* Scheduler.fit
Fit(e) ==
    /\ model[e].inits < MaxFits
    /\ Cardinality(model[e].intervals) + NumTasks <= MaxIntervals
    /\ LET g == model[e].inits + 1
           js == initialize_tasks(e, g)
           m2i == initialize_intervals(machine_to_intervals[e], g)
           m1 == add_precedence_constraints(
                     add_no_overlap_constraint(initialize_model(model[e], g), m2i), js)
       IN  /\ machine_to_intervals' = [machine_to_intervals EXCEPT ![e] = m2i]
           /\ IF objective_raises(js)
              THEN /\ model' = [model EXCEPT ![e] = objective_var(m1)]
                   /\ jobs' = js
                   /\ last' = Returned("fit", e, "IndexError")
                   /\ UNCHANGED <<fitted, everFitted>>
              ELSE LET m2 == define_objective(m1, js, g)
                   IN  /\ model' = [model EXCEPT ![e] = m2]
                       /\ \E r \in Solve(m2) :
                            LET ok == r.status \in {"OPTIMAL", "FEASIBLE"}
                            IN  /\ fitted' = [fitted EXCEPT ![e] = ok]
                                /\ everFitted' = [everFitted EXCEPT ![e] = @ \/ ok]
                                /\ jobs' = IF ok THEN update_tasks(js, r.values) ELSE js
                                /\ last' = Returned("fit", e,
                                      IF ok THEN "ok" ELSE "SolverUnsuccessful")

\* What get_results raises once past the _fitted check: task.__dict inside
\* class Scheduler is the attribute _Scheduler__dict, which no Task has; with
\* no task to read, the frame has no "id" / "start" column.
get_results_raises(js) ==
    IF js # <<>> /\ js[1].tasks # <<>> THEN "AttributeError" ELSE "KeyError"

\* Variant: no _fitted check.
get_results_unguarded(f, js) == get_results_raises(js)

\* get_results: the _fitted check, then the table building.
get_results(f, js) ==
    IF ~f THEN "ModelNotFitted" ELSE get_results_raises(js)

\* Scheduler.get_results
GetResults(e) ==
    /\ last' = Returned("get_results", e, get_results(fitted[e], jobs))
    /\ UNCHANGED <<jobs, fitted, model, machine_to_intervals, everFitted>>

Init ==
    /\ jobs \in Requests \cup {scheduler_example, crossing_example}
    /\ fitted = [e \in Engines |-> FALSE]
    /\ model = [e \in Engines |-> EmptyModel]
    /\ machine_to_intervals = [e \in Engines |-> [m \in {} |-> <<>>]]
    /\ last = [op |-> "init", eng |-> 0, outcome |-> "ok", table |-> <<>>]
    /\ everFitted = [e \in Engines |-> FALSE]

Next == \E e \in Primary : Fit(e) \/ GetResults(e)

Spec == Init /\ [][Next]_vars

\* Two engines constructed from job lists that hold the same Job and Task
\* records: each has its own _fitted, CpModel and interval lists, and both
\* read and write the records of jobs.
NextShared == \E e \in Engines : Fit(e) \/ GetResults(e)

SpecShared == Init /\ [][NextShared]_vars

\* ------------------------------------------------------------ properties
FitCompleted == last.op = "fit" /\ last.outcome = "ok"

IsInt(v) == v.kind = "int"

Num(v) == v.ref[1]

TaskAt(r) == jobs[r[1]].tasks[r[2]]

Solved(r) == IsInt(TaskAt(r).start) /\ IsInt(TaskAt(r).end)

\* C1: after a successful fit no two distinct tasks of one machine, of the
\* same job or of different jobs, have intersecting [start, end) intervals.
C1_NoOverlap ==
    FitCompleted =>
        \A r1 \in TaskRefs : \A r2 \in TaskRefs :
            (r1 # r2 /\ TaskAt(r1).machine = TaskAt(r2).machine) =>
                /\ Solved(r1) /\ Solved(r2)
                /\ \/ Num(TaskAt(r1).end) <= Num(TaskAt(r2).start)
                   \/ Num(TaskAt(r2).end) <= Num(TaskAt(r1).start)

C1_Witness ==
    /\ FitCompleted
    /\ \E r1 \in TaskRefs : \E r2 \in TaskRefs :
          r1[1] = r2[1] /\ r1[2] # r2[2] /\ TaskAt(r1).machine = TaskAt(r2).machine
    /\ \E r1 \in TaskRefs : \E r2 \in TaskRefs :
          r1[1] # r2[1] /\ TaskAt(r1).machine = TaskAt(r2).machine

C3_Consistency ==
    FitCompleted =>
        \A r \in TaskRefs :
            /\ Solved(r)
            /\ 0 <= Num(TaskAt(r).start)
            /\ Num(TaskAt(r).end) <= horizon
            /\ Num(TaskAt(r).end) - Num(TaskAt(r).start) = TaskAt(r).duration

C3_Witness ==
    FitCompleted /\ NumTasks >= 2 /\ \E r \in TaskRefs : Num(TaskAt(r).start) > 0

Makespan == SetMax({0} \cup {Num(TaskAt(r).end) : r \in TaskRefs})

RECURSIVE Dispatch(_, _, _)
\* Exhaustive search over the orders in which the jobs' next tasks can be
\* dispatched, each task placed as early as its job and its machine allow:
\* the least completion time of the last task.  next[j] is the index of job
\* j's next task, jr[j] the end of its previous one, mr[m] the time machine
\* m falls free.
Dispatch(next, jr, mr) ==
    LET open == {j \in 1..Len(jobs) : next[j] <= Len(jobs[j].tasks)}
    IN  IF open = {} THEN SetMax({0} \cup {jr[j] : j \in DOMAIN jr})
        ELSE SetMin({LET t == jobs[j].tasks[next[j]]
                         s == IF jr[j] >= mr[t.machine] THEN jr[j] ELSE mr[t.machine]
                     IN  Dispatch([next EXCEPT ![j] = @ + 1],
                                  [jr EXCEPT ![j] = s + t.duration],
                                  [mr EXCEPT ![t.machine] = s + t.duration]) :
                     j \in open})

MinMakespan ==
    Dispatch([j \in 1..Len(jobs) |-> 1], [j \in 1..Len(jobs) |-> 0],
             [m \in all_machines |-> 0])

Inputs(js) ==
    [j \in 1..Len(js) |-> [i \in 1..Len(js[j].tasks) |->
        <<js[j].tasks[i].id, js[j].tasks[i].machine, js[j].tasks[i].duration>>]]

\* C4: the schedule a successful fit leaves has the least makespan any
\* schedule satisfying precedence and no-overlap has, as found by exhaustive
\* search; for the two-job fixture over machines 1, 2, 3 it is 8.
C4_Optimality ==
    FitCompleted =>
        /\ Makespan = MinMakespan
        /\ Inputs(jobs) = Inputs(scheduler_example) => Makespan = 8

C4_Witness ==
    FitCompleted /\ Inputs(jobs) = Inputs(scheduler_example) /\ Makespan = 8

\* C5: a fit that raises SolverUnsuccessful leaves the engine unsolved and
\* every task's start and end as they were before the call.
C5_FailedFitChangesNoTask ==
    [][(last'.op = "fit" /\ last'.outcome = "SolverUnsuccessful") =>
           (~fitted'[last'.eng] /\ jobs' = jobs)]_vars

\* C6: fit on an engine that is already solved is a no-op: the engine stays
\* solved, the tasks keep their values, the model gains no variable or
\* constraint, and the call returns without raising.
C6_RefitIsNoOp ==
    [][(last'.op = "fit" /\ fitted[last'.eng]) =>
           /\ fitted'[last'.eng]
           /\ jobs' = jobs
           /\ model' = model
           /\ last'.outcome = "ok"]_vars

\* C7: on an engine on which no fit has completed successfully, get_results
\* fails with ModelNotFitted, a failure other than SolverUnsuccessful, and
\* returns no table.
C7_NotFitted ==
    (last.op = "get_results" /\ ~everFitted[last.eng]) =>
        /\ last.outcome = "ModelNotFitted"
        /\ last.outcome # "SolverUnsuccessful"
        /\ last.table = <<>>

C7_Witness ==
    /\ last.op = "get_results" /\ last.outcome = "ModelNotFitted"
    /\ ~everFitted[last.eng]
    /\ model[last.eng].inits >= 1
    /\ jobs = <<>>

\* The rows of the table in insertion order: jobs in request order, tasks
\* in job order; id stands for the text job(<job_id>, <task_id>).
Rows ==
    LET order == TaskOrder(Len(jobs))
    IN  [k \in 1..Len(order) |->
            LET t == TaskAt(order[k])
            IN  [job_id |-> order[k][1] - 1,
                 id |-> <<order[k][1] - 1, t.id>>,
                 machine |-> t.machine,
                 start |-> t.start,
                 end |-> t.end]]

Before(r1, r2) ==
    \/ r1.machine < r2.machine
    \/ r1.machine = r2.machine /\ Num(r1.start) < Num(r2.start)

\* The stable sort of rows by (machine, start).
StableSort(rows) ==
    LET rank(i) == 1 + Cardinality({i2 \in 1..Len(rows) :
                        \/ Before(rows[i2], rows[i])
                        \/ ~Before(rows[i], rows[i2]) /\ i2 < i})
    IN  [k \in 1..Len(rows) |-> rows[CHOOSE i \in 1..Len(rows) : rank(i) = k]]

\* C8: on a solved engine get_results returns the stable sort by
\* (machine, start) of one row per task in insertion order, each row with
\* the identifier job(<job_id>, <task_id>), the machine, start and end.
C8_ResultTable ==
    (last.op = "get_results" /\ fitted[last.eng]) =>
        /\ last.outcome = "ok"
        /\ last.table = StableSort(Rows)

\* C9: get_results on a solved engine changes nothing in the engine, and
\* two successive calls return identical tables.
C9_GetResultsIsPure ==
    [][(last'.op = "get_results" /\ fitted[last'.eng]) =>
           /\ fitted' = fitted /\ jobs' = jobs /\ model' = model
           /\ last'.outcome = "ok"
           /\ last.op = "get_results" => last'.table = last.table]_vars

\* C10: fit succeeds on a request with zero jobs and on a request with an
\* empty job; with zero jobs the makespan is 0 and get_results returns an
\* empty table.
C10_Degenerate ==
    /\ (last.op = "fit" /\ (jobs = <<>> \/ objective_raises(jobs))) =>
            (last.outcome = "ok" /\ (jobs = <<>> => Makespan = 0))
    /\ (last.op = "get_results" /\ jobs = <<>> /\ model[last.eng].inits >= 1) =>
            (last.outcome = "ok" /\ last.table = <<>>)

\* A well-formed request: at least one job, every job with at least one
\* task, every duration a positive integer.
WellFormed ==
    /\ jobs # <<>>
    /\ \A j \in 1..Len(jobs) : jobs[j].tasks # <<>>
    /\ \A r \in TaskRefs : Dur(r[1], r[2]) >= 1

\* The call that has just returned was the first fit of its engine.
FirstFit == last.op = "fit" /\ model[last.eng].inits = 1

\* C11: the first fit on a fresh engine of a well-formed request never ends
\* infeasible and never raises SolverUnsuccessful: it succeeds, with every
\* start and end in [0, horizon], horizon the sum of all task durations.
C11_FirstFitSatisfiable ==
    (FirstFit /\ WellFormed) =>
        /\ last.outcome = "ok"
        /\ fitted[last.eng]
        /\ \A r \in TaskRefs :
              /\ Solved(r)
              /\ 0 <= Num(TaskAt(r).start)
              /\ Num(TaskAt(r).end) <= SumSeq([k \in 1..Len(TaskOrder(Len(jobs))) |->
                      Dur(TaskOrder(Len(jobs))[k][1], TaskOrder(Len(jobs))[k][2])])

\* A first fit of a well-formed request whose tasks all compete for one
\* machine, so that the schedule needs the whole horizon.
C11_Witness ==
    /\ FirstFit /\ WellFormed /\ last.outcome = "ok"
    /\ Len(jobs) >= 2
    /\ Cardinality(all_machines) = 1
    /\ NumTasks >= 3

\* C12: engines are independent: a fit or get_results call on one engine
\* leaves every other solved engine solved, with the start and end values
\* of its tasks unchanged.
C12_EnginesIndependent ==
    [][\A e \in Engines :
         (fitted[e] /\ last'.eng # e) =>
            /\ fitted'[e]
            /\ \A r \in TaskRefs :
                  /\ jobs'[r[1]].tasks[r[2]].start = jobs[r[1]].tasks[r[2]].start
                  /\ jobs'[r[1]].tasks[r[2]].end = jobs[r[1]].tasks[r[2]].end]_vars
====
